---- MODULE Spec2Model ----
(***************************************************************************)
(* Archon Agent Tester: the ArchonTester facade (archon_agent_tester.py),  *)
(* the Archon gateway client (archon/client.py), the pydantic domain       *)
(* models (core/models.py), the exception hierarchy (core/exceptions.py),  *)
(* the settings (core/config.py) and the command line (cli.py).            *)
(*                                                                         *)
(* Four specifications share the variables:                                *)
(*   Spec        the facade: registries, test_agent, generate_report, ...  *)
(*   SpecClient  one gateway operation of ArchonClient on one HTTP reply   *)
(*   SpecModels  construction of a TestResult / TestRun by its validators  *)
(*   SpecCli     one invocation of the command line                        *)
(***************************************************************************)
EXTENDS Integers, Sequences, FiniteSets, TLC

VARIABLES
    test_cases,     \* ArchonTester.test_cases   : id -> TestCase
    test_suites,    \* ArchonTester.test_suites  : id -> TestSuite
    test_runs,      \* ArchonTester.test_runs    : id -> TestRun
    engine_cases,   \* TestExecutionEngine's registry of test cases
    engine_suites,  \* TestExecutionEngine's registry of test suites
    uuid,           \* number of identifiers drawn from uuid.uuid4 so far
    last,           \* the last facade call: its arguments and its outcome
    http,           \* the last ArchonClient call: operation, reply, outcome
    model,          \* the last constructed domain object: arguments, object
    cli,            \* the command-line process
    execution       \* the engine's run in progress, case by case

facadeVars == <<test_cases, test_suites, test_runs, engine_cases, engine_suites,
                uuid, last>>
vars == <<test_cases, test_suites, test_runs, engine_cases, engine_suites,
          uuid, last, http, model, cli, execution>>

-----------------------------------------------------------------------------
(* Bounds of the model.                                                     *)

MaxTick == 3        \* datetimes are 0, 400, ..., 400 * MaxTick microseconds
MaxResults == 2     \* a constructed TestRun lists at most this many results
MaxUuid == 3        \* identifiers drawn from uuid.uuid4 in one behaviour
MaxSuiteLen == 2    \* test cases in one suite

-----------------------------------------------------------------------------
(* Python values.                                                           *)

None == <<>>
Some(v) == <<v>>
IsNone(o) == o = <<>>
Get(o) == o[1]

EmptyDict == [k \in {} |-> 0]

\* A statement sequence: v is evaluated once, then Rest runs on its value.
Bind(v, Rest(_)) == CHOOSE r \in {Rest(x) : x \in {v}} : TRUE

\* The outcome of a call: it returns a value or raises an exception.
Return(v) == [exc |-> "none", val |-> v]
Raise(t) == [exc |-> t, val |-> "none"]

-----------------------------------------------------------------------------
(* core/exceptions.py: the exception classes and their base classes.        *)

ArchonErrors ==
    {"ConfigurationError", "ArchonAPIError", "OpenRouterAPIError",
     "TestCaseNotFoundError", "TestSuiteNotFoundError", "AgentNotFoundError",
     "TestExecutionError", "EvaluationError", "ReportGenerationError"}

BuiltinErrors ==
    {"ValueError", "KeyError", "NameError", "OSError", "ValidationError",
     "HTTPStatusError", "TransportError", "JSONDecodeError"}

\* The direct base class of an exception class.
BaseClass(t) ==
    IF t \in ArchonErrors THEN "ArchonAgentTesterError" ELSE "Exception"

\* isinstance(e, cls) for an exception e of class t: what `except cls` catches.
IsInstance(t, cls) ==
    \/ t = cls
    \/ BaseClass(t) = cls
    \/ cls = "Exception"

-----------------------------------------------------------------------------
(* archon/client.py: ArchonClient.                                          *)

StatusCodes == {200, 204, 302, 400, 404, 500}

\* What the decoded JSON body holds: every field the caller reads
\* ("complete"), or a document lacking them ("incomplete": an agent without
\* a name, an empty response); "invalid_json" is a body json() cannot decode.
Bodies == {"complete", "incomplete", "invalid_json"}

\* One exchange with the Archon API.  transport_ok = FALSE: httpx raised
\* before any response (connection error, timeout).  strict: the installed
\* httpx raises HTTPStatusError for every non-2xx status; otherwise only
\* for 4xx and 5xx.
HttpReplies ==
    [transport_ok : BOOLEAN, status : StatusCodes, body : Bodies, strict : BOOLEAN]

raise_for_status(reply) ==
    \/ reply.status >= 400
    \/ reply.strict /\ (reply.status < 200 \/ reply.status >= 300)

_handle_response(reply) ==
    IF raise_for_status(reply)
    THEN IF reply.status = 404
         THEN Raise("AgentNotFoundError")
         ELSE Raise("ArchonAPIError")
    ELSE IF reply.body = "invalid_json"
         THEN Raise("ArchonAPIError")
         ELSE Return(reply.body)

\* try: request; _handle_response / except AgentNotFoundError: raise /
\* except Exception: raise ArchonAPIError
RequestReraisingNotFound(reply) ==
    IF ~reply.transport_ok
    THEN Raise("ArchonAPIError")
    ELSE LET r == _handle_response(reply) IN
         IF r.exc = "none" THEN r
         ELSE IF IsInstance(r.exc, "AgentNotFoundError") THEN r
         ELSE Raise("ArchonAPIError")

\* try: request; _handle_response / except Exception: raise ArchonAPIError
RequestWrappingAll(reply) ==
    IF ~reply.transport_ok
    THEN Raise("ArchonAPIError")
    ELSE LET r == _handle_response(reply) IN
         IF r.exc = "none" THEN r ELSE Raise("ArchonAPIError")

get_agent(reply) == RequestReraisingNotFound(reply)

list_agents(reply) == RequestWrappingAll(reply)

invoke_agent(reply) == RequestReraisingNotFound(reply)

get_agent_metrics_wrapall(reply) == RequestWrappingAll(reply)

get_agent_metrics(reply) == RequestReraisingNotFound(reply)

update_agent_metadata(reply) == RequestReraisingNotFound(reply)

HttpIdle ==
    [op |-> "none",
     reply |-> [transport_ok |-> TRUE, status |-> 200, body |-> "complete",
                strict |-> TRUE],
     out |-> Return("none")]

ClientCall(op, reply, out) ==
    /\ http' = [op |-> op, reply |-> reply, out |-> out]
    /\ UNCHANGED <<facadeVars, model, cli, execution>>

ClientGetAgent == \E reply \in HttpReplies :
    ClientCall("get_agent", reply, get_agent(reply))

ClientListAgents == \E reply \in HttpReplies :
    ClientCall("list_agents", reply, list_agents(reply))

ClientInvokeAgent == \E reply \in HttpReplies :
    ClientCall("invoke_agent", reply, invoke_agent(reply))

ClientGetAgentMetrics == \E reply \in HttpReplies :
    ClientCall("get_agent_metrics", reply, get_agent_metrics(reply))

ClientUpdateAgentMetadata == \E reply \in HttpReplies :
    ClientCall("update_agent_metadata", reply, update_agent_metadata(reply))

-----------------------------------------------------------------------------
(* core/models.py: the enumerations and the validators of TestResult and    *)
(* TestRun.                                                                 *)

TestStatus == {"pending", "running", "passed", "failed", "error", "skipped"}

TestType == {"functional", "performance", "reliability", "safety", "custom"}

\* datetimes, in microseconds
Times == {k * 400 : k \in 0..MaxTick}

\* int(x) of the quotient n / d: truncation toward zero
IntOf(n, d) == IF n >= 0 THEN n \div d ELSE -((-n) \div d)

\* round(x) of the quotient n / d: to the nearest integer, ties to even
RoundOf(n, d) ==
    LET q == n \div d
        r == n % d
    IN  IF 2 * r < d THEN q
        ELSE IF 2 * r > d THEN q + 1
        ELSE IF q % 2 = 0 THEN q ELSE q + 1

\* @validator("end_time", always=True)
set_end_time(v, status, now) ==
    IF IsNone(v) /\ status \notin {"pending", "running"}
    THEN Some(now)
    ELSE v

\* @validator("duration_ms", always=True); (end - start).total_seconds() * 1000
\* is the quotient of the difference in microseconds by 1000.
calculate_duration(v, start_time, end_time) ==
    IF IsNone(v) /\ ~IsNone(end_time)
    THEN Some(IntOf(Get(end_time) - start_time, 1000))
    ELSE v

\* TestResult(status=, start_time=, end_time=, duration_ms=) constructed when
\* the clock reads `now`; the validators run in field order.
TestResult(status, start_time, end_time, duration_ms, now) ==
    LET e == set_end_time(end_time, status, now)
        d == calculate_duration(duration_ms, start_time, e)
    IN  [status |-> status, start_time |-> start_time, end_time |-> e,
         duration_ms |-> d]

SummaryKeys == {"total", "pending", "passed", "failed", "error", "skipped"}

\* @validator("summary", always=True)
calculate_summary(v, results) ==
    IF v = EmptyDict /\ results # <<>>
    THEN [k \in SummaryKeys |-> IF k = "total" THEN Len(results) ELSE 0]
    ELSE v

\* TestRun(results=, summary=)
TestRun(results, summary) ==
    [results |-> results, summary |-> calculate_summary(summary, results)]

ResultRefs == UNION {[1..n -> {"r1", "r2"}] : n \in 0..MaxResults}

\* The summaries a caller passes: none, or one count per key.
SummaryArgs ==
    {EmptyDict} \cup [SummaryKeys -> 0..1]

DurationArgs == {None} \cup {Some(d) : d \in {0, 1}}

ModelIdle == [cls |-> "none", obj |-> None]

NewTestResult ==
    \E status \in TestStatus, start_time \in Times, now \in Times,
       end_time \in {None} \cup {Some(t) : t \in Times},
       duration_ms \in DurationArgs :
        /\ model' = [cls |-> "TestResult",
                     obj |-> Some(TestResult(status, start_time, end_time,
                                             duration_ms, now))]
        /\ UNCHANGED <<facadeVars, http, cli, execution>>

NewTestRun ==
    \E results \in ResultRefs, summary \in SummaryArgs :
        /\ model' = [cls |-> "TestRun", obj |-> Some(TestRun(results, summary))]
        /\ UNCHANGED <<facadeVars, http, cli, execution>>

-----------------------------------------------------------------------------
(* core/config.py and cli.py: one invocation of the command line.           *)

\* An API key as the process sees it: not given, the empty string, a key.
KeyArgs == {"unset", "", "key"}

\* bool(x) of an Optional[str]
Truthy(x) == x \notin {"unset", ""}

\* x or y
Or(x, y) == IF Truthy(x) THEN x ELSE y

Commands == {"test", "list-agents", "list-models", "create-test-case"}

\* The options each subcommand declares.
HasArchonFlag(cmd) == cmd \in {"test", "list-agents"}
HasOpenRouterFlag(cmd) == cmd \in {"test", "list-models"}

\* The process at start: the subcommand, its --archon-api-key and
\* --openrouter-api-key options, the environment variables ARCHON_API_KEY and
\* OPENROUTER_API_KEY, and whether a .env file supplies both keys.
CliStarts ==
    {c \in [cmd : Commands, flag_archon : KeyArgs, flag_openrouter : KeyArgs,
            env_archon : KeyArgs, env_openrouter : KeyArgs, dotenv : BOOLEAN,
            pc : {"start"}, exit_code : {0}, net_calls : {0}] :
        /\ ~HasArchonFlag(c.cmd) => c.flag_archon = "unset"
        /\ ~HasOpenRouterFlag(c.cmd) => c.flag_openrouter = "unset"}

\* settings = Settings(): both keys are required fields, read from the
\* environment or the .env file; a missing one fails validation.
Settings(c) ==
    IF /\ (c.env_archon # "unset" \/ c.dotenv)
       /\ (c.env_openrouter # "unset" \/ c.dotenv)
    THEN Return("settings")
    ELSE Raise("ValidationError")

Exit(c, code) == [c EXCEPT !.pc = "exited", !.exit_code = code]

\* A gateway request made through the tester; net_ok: it succeeded.
NetworkCall(c, net_ok) ==
    Exit([c EXCEPT !.net_calls = @ + 1], IF net_ok THEN 0 ELSE 1)

\* The body of `test` without the check of the OpenRouter key.
test_unchecked_openrouter(c, net_ok) ==
    LET archon_key == Or(c.flag_archon, c.env_archon)
    IN  IF ~Truthy(archon_key) THEN Exit(c, 1)
        ELSE NetworkCall(c, net_ok)

\* @app.command() test
test(c, net_ok) ==
    LET archon_key == Or(c.flag_archon, c.env_archon)
        openrouter_key == Or(c.flag_openrouter, c.env_openrouter)
    IN  IF ~Truthy(archon_key) THEN Exit(c, 1)
        ELSE IF ~Truthy(openrouter_key) THEN Exit(c, 1)
        ELSE NetworkCall(c, net_ok)

\* @app.command() list_agents
cli_list_agents(c, net_ok) ==
    LET archon_key == Or(c.flag_archon, c.env_archon)
    IN  IF ~Truthy(archon_key) THEN Exit(c, 1)
        ELSE NetworkCall(c, net_ok)

\* @app.command() list_models
list_models(c, net_ok) ==
    LET openrouter_key == Or(c.flag_openrouter, c.env_openrouter)
    IN  IF ~Truthy(openrouter_key) THEN Exit(c, 1)
        ELSE NetworkCall(c, net_ok)

\* @app.command() create_test_case: no key is checked and no request is
\* made; an unknown --test-type is a ValueError, caught, exit 1.
create_test_case(c, type_ok) ==
    Exit(c, IF type_ok THEN 0 ELSE 1)

\* Importing cli.py imports core.config, which builds the settings; an
\* exception at import ends the process with status 1.
CliImport ==
    /\ cli.pc = "start"
    /\ cli' = IF Settings(cli).exc = "none"
              THEN [cli EXCEPT !.pc = "main"]
              ELSE Exit(cli, 1)
    /\ UNCHANGED <<facadeVars, http, model, execution>>

CliRun(cmd, c) ==
    /\ cli.pc = "main"
    /\ cli.cmd = cmd
    /\ cli' = c
    /\ UNCHANGED <<facadeVars, http, model, execution>>

CliTest == \E net_ok \in BOOLEAN : CliRun("test", test(cli, net_ok))

CliListAgents == \E net_ok \in BOOLEAN :
    CliRun("list-agents", cli_list_agents(cli, net_ok))

CliListModels == \E net_ok \in BOOLEAN :
    CliRun("list-models", list_models(cli, net_ok))

CliCreateTestCase == \E type_ok \in BOOLEAN :
    CliRun("create-test-case", create_test_case(cli, type_ok))

CliIdle ==
    [cmd |-> "test", flag_archon |-> "unset", flag_openrouter |-> "unset",
     env_archon |-> "unset", env_openrouter |-> "unset", dotenv |-> FALSE,
     pc |-> "start", exit_code |-> 0, net_calls |-> 0]

-----------------------------------------------------------------------------
(* archon_agent_tester.py: the values the facade handles.                   *)

AgentIds == {"agent-1"}

\* Identifiers: uuid.uuid4() draws <<"uuid", k>>, never twice the same; a
\* caller who builds a TestSuite, TestCase or TestRun picks <<"user", k>>.
Uuid(k) == <<"uuid", k>>
UserId == <<"user", 1>>

\* d[k] = v on a dict
DictSet(d, k, v) ==
    [x \in DOMAIN d \cup {k} |-> IF x = k THEN v ELSE d[x]]

\* The names bound in the module archon_agent_tester: its imports.
ModuleNames ==
    {"TestCase", "TestResult", "TestSuite", "TestRun", "TestStatus", "TestType",
     "ArchonAgentTesterError", "ConfigurationError", "ArchonAPIError",
     "OpenRouterAPIError", "TestCaseNotFoundError", "TestSuiteNotFoundError",
     "AgentNotFoundError", "TestExecutionError", "EvaluationError",
     "ReportGenerationError", "ArchonClient", "ArchonAdapter",
     "OpenRouterClient", "TestExecutionEngine", "ReportGenerator"}

\* Evaluating a name that stands for an exception class: the class, or
\* NameError when the module binds no such name.
Resolve(name) ==
    IF name \in ModuleNames THEN Return(name) ELSE Raise("NameError")

\* raise <name>(...)
RaiseNamed(name) ==
    IF Resolve(name).exc = "none" THEN Raise(name) ELSE Resolve(name)

\* The replies the gateway gives the facade, one of each kind: an agent or
\* answer with its fields, one lacking them, not found, a server error, and
\* no reply within the client's timeout.
FacadeReplies ==
    {r \in HttpReplies :
        /\ r.strict
        /\ r.status \in {200, 404, 500}
        /\ r.body # "invalid_json"
        /\ r.status # 200 => r.body = "complete"
        /\ ~r.transport_ok => (r.status = 200 /\ r.body = "complete")}

\* The gateway's replies to the requests of one facade call form a script,
\* in the order of the requests; the k-th request reads the k-th reply.
Reply(script, k) ==
    IF k <= Len(script) THEN script[k]
    ELSE [transport_ok |-> TRUE, status |-> 200, body |-> "complete",
          strict |-> TRUE]

-----------------------------------------------------------------------------
(* The collaborators of the facade: execution engine, adapter and report    *)
(* generator.                                                               *)

\* TestExecutionEngine.register_test_case / register_test_suite
register(registry, value) == DictSet(registry, value.id, value)

\* The evaluator on the criterion "response_not_empty".
Evaluate(body) == IF body = "complete" THEN "passed" ELSE "failed"

\* A step that ends the run at any failure of the gateway.
ExecuteCaseFailureAborts(case_id, reply, cases) ==
    IF case_id \notin DOMAIN cases
    THEN [status |-> "error", reason |-> "test case not found",
          abort |-> FALSE, calls |-> <<>>]
    ELSE [status |-> IF invoke_agent(reply).exc = "none"
                     THEN Evaluate(invoke_agent(reply).val) ELSE "error",
          reason |-> invoke_agent(reply).exc,
          abort |-> invoke_agent(reply).exc # "none",
          calls |-> <<[case |-> case_id, exc |-> invoke_agent(reply).exc]>>]

\* A step that ends the run at a case it cannot resolve.
ExecuteCaseUnresolvedAborts(case_id, reply, cases) ==
    IF case_id \notin DOMAIN cases
    THEN [status |-> "error", reason |-> "test case not found",
          abort |-> TRUE, calls |-> <<>>]
    ELSE [status |-> "passed", reason |-> "none", abort |-> FALSE,
          calls |-> <<[case |-> case_id, exc |-> "none"]>>]

\* One case of a suite: unresolvable -> error "test case not found", no
\* request; agent not found -> abort; other gateway failure -> error;
\* otherwise the evaluator's verdict.  calls lists the invoke_agent requests
\* made, each with the case it was made for and how it ended.
ExecuteCase(case_id, reply, cases) ==
    IF case_id \notin DOMAIN cases
    THEN [status |-> "error", reason |-> "test case not found",
          abort |-> FALSE, calls |-> <<>>]
    ELSE LET Outcome(r) ==
               IF r.exc = "AgentNotFoundError"
               THEN [status |-> "error", reason |-> r.exc, abort |-> TRUE,
                     calls |-> <<[case |-> case_id, exc |-> r.exc]>>]
               ELSE IF r.exc # "none"
               THEN [status |-> "error", reason |-> r.exc, abort |-> FALSE,
                     calls |-> <<[case |-> case_id, exc |-> r.exc]>>]
               ELSE [status |-> Evaluate(r.val),
                     reason |-> IF Evaluate(r.val) = "passed" THEN "none"
                                ELSE "response_not_empty",
                     abort |-> FALSE,
                     calls |-> <<[case |-> case_id, exc |-> r.exc]>>]
         IN  Bind(invoke_agent(reply), Outcome)

\* The cases of a suite in order, from case i on, until the last or an
\* abort; k requests were made before.
RECURSIVE ExecuteCases(_, _, _, _, _)
ExecuteCases(ids, script, cases, i, k) ==
    IF i > Len(ids)
    THEN [aborted |-> FALSE, results |-> <<>>, calls |-> <<>>, requests |-> k]
    ELSE LET Step(r) ==
               IF r.abort
               THEN [aborted |-> TRUE, results |-> <<>>, calls |-> r.calls,
                     requests |-> k + Len(r.calls)]
               ELSE LET Join(rest) ==
                          [aborted |-> rest.aborted,
                           results |-> <<[test_case_id |-> ids[i],
                                          status |-> r.status,
                                          reason |-> r.reason]>>
                                       \o rest.results,
                           calls |-> r.calls \o rest.calls,
                           requests |-> rest.requests]
                    IN  Bind(ExecuteCases(ids, script, cases, i + 1,
                                          k + Len(r.calls)), Join)
         IN  Bind(ExecuteCase(ids[i], Reply(script, k + 1), cases), Step)

CountOf(results, status) ==
    Cardinality({i \in 1..Len(results) : results[i].status = status})

\* Run aggregation: counts per status plus total.
Summarize(results) ==
    [k \in SummaryKeys |->
        IF k = "total" THEN Len(results) ELSE CountOf(results, k)]

\* An aggregate in which a failed result outranks an error.
RunStatusFailedFirst(results) ==
    IF CountOf(results, "failed") > 0 THEN "failed"
    ELSE IF CountOf(results, "error") > 0 THEN "error"
    ELSE "passed"

\* error > failed > passed
RunStatus(results) ==
    IF CountOf(results, "error") > 0 THEN "error"
    ELSE IF CountOf(results, "failed") > 0 THEN "failed"
    ELSE "passed"

\* TestExecutionEngine.execute_test_suite(suite_id, agent_id)
execute_test_suite(suite_id, agent_id, suites, cases, script, k, run_id) ==
    IF suite_id \notin DOMAIN suites
    THEN [exc |-> "TestSuiteNotFoundError", val |-> "none", calls |-> <<>>,
          requests |-> k]
    ELSE LET Finish(x) ==
               IF x.aborted
               THEN [exc |-> "AgentNotFoundError", val |-> "none",
                     calls |-> x.calls, requests |-> x.requests]
               ELSE [exc |-> "none",
                     val |-> [id |-> run_id, agent_id |-> agent_id,
                              test_suite_id |-> suite_id,
                              status |-> RunStatus(x.results),
                              results |-> x.results,
                              summary |-> Summarize(x.results)],
                     calls |-> x.calls, requests |-> x.requests]
         IN  Bind(ExecuteCases(suites[suite_id].test_cases, script, cases, 1, k),
                  Finish)

\* The statuses a finalized result has.
TerminalStatus == TestStatus \ {"pending", "running"}

\* The result lists of a run at its end: every result is terminal.
FinalResults ==
    UNION {[1..n -> [status : TerminalStatus]] : n \in 0..MaxResults}

\* Step 5 of the engine on its own: the status and summary of a run are
\* finalized from its results.
FinalizeRun ==
    \E results \in FinalResults :
        /\ model' = [cls |-> "FinalizedRun",
                     obj |-> Some([results |-> results,
                                   status |-> RunStatus(results),
                                   summary |-> Summarize(results)])]
        /\ UNCHANGED <<facadeVars, http, cli, execution>>

\* ArchonAdapter.generate_test_cases_for_agent: n cases of the given type
\* under fresh identifiers first + 1 .. first + n.
generate_test_cases_for_agent(test_type, first, n) ==
    [i \in 1..n |-> [id |-> Uuid(first + i), test_type |-> test_type,
                     evaluation_criteria |-> "response_not_empty"]]

\* ArchonAdapter.create_test_suite
create_test_suite(suite_id, cases) ==
    [id |-> suite_id, test_cases |-> [i \in 1..Len(cases) |-> cases[i].id]]

\* ArchonAdapter.update_agent_with_test_results: one update_agent_metadata
\* request; a failure is logged and not raised.
update_agent_with_test_results(reply) ==
    LET r == update_agent_metadata(reply) IN
    [exc |-> "none", logged |-> r.exc]

ReportFormats == {"json", "html", "markdown", "csv"}

\* ReportGenerator.generate_report(run_id, format); render: how the
\* renderer ends ("ok" or the exception it raises).
rg_generate_report(run_id, format, render) ==
    IF format \notin ReportFormats THEN Raise("ReportGenerationError")
    ELSE IF render # "ok" THEN Raise(render)
    ELSE Return("report")

-----------------------------------------------------------------------------
(* archon_agent_tester.py: ArchonTester.test_agent.                         *)

\* The facade's storage and the engine's, as one value.
Storage ==
    [test_cases |-> test_cases, test_suites |-> test_suites,
     test_runs |-> test_runs, engine_cases |-> engine_cases,
     engine_suites |-> engine_suites, uuid |-> uuid]

\* How a call of test_agent ends: the storage it leaves, the exception it
\* raises ("none": it returns the run ret), the outcome of get_agent, the
\* id of the run execute_test_suite returned (None: it raised or was not
\* reached),
\* the outcome of the update_agent_metadata request ("not_called" when it
\* was not reached), the number of gateway requests made, and the
\* invoke_agent requests among them (none before the engine runs).
Ended(st, exc, ret, get_exc, run, update, requests) ==
    [st |-> st, exc |-> exc, ret |-> ret, get_exc |-> get_exc,
     run |-> run, update |-> update, requests |-> requests, calls |-> <<>>]

\* for test_case in test_cases: self.test_cases[test_case.id] = test_case;
\* self.execution_engine.register_test_case(test_case)
RECURSIVE RegisterCases(_, _, _)
RegisterCases(st, cases, i) ==
    IF i > Len(cases) THEN st
    ELSE RegisterCases(
            [st EXCEPT !.test_cases = DictSet(@, cases[i].id, cases[i]),
                       !.engine_cases = register(@, cases[i])],
            cases, i + 1)

\* The update step made on the gateway client itself, not through the
\* adapter: its exception is raised.
PostRunUpdateRaising(reply) ==
    LET r == update_agent_metadata(reply) IN
    [exc |-> r.exc, logged |-> r.exc]

\* self.adapter.update_agent_with_test_results(agent_id, test_run)
PostRunUpdate(reply) == update_agent_with_test_results(reply)

\* From "# Execute the test suite" to "return test_run"; k requests were
\* made before.
ExecuteAndStore(st, agent_id, suite, script, k) ==
    LET Stored(x) ==
          IF x.exc # "none"
          THEN [Ended(st, x.exc, None, "none", None, "not_called", x.requests)
                EXCEPT !.calls = x.calls]
          ELSE LET Updated(u) ==
                    [Ended([st EXCEPT
                              !.test_runs = DictSet(@, x.val.id, x.val),
                              !.uuid = @ + 1],
                           u.exc,
                           IF u.exc # "none" THEN None ELSE Some(x.val.id),
                           "none", Some(x.val.id), u.logged, x.requests + 1)
                     EXCEPT !.calls = x.calls]
               IN  Bind(PostRunUpdate(Reply(script, x.requests + 1)), Updated)
    IN  Bind(execute_test_suite(suite.id, agent_id, st.engine_suites,
                                st.engine_cases, script, k, Uuid(st.uuid + 1)),
             Stored)

\* The branch isinstance(test_suite, str).
SuiteByType(st, agent_id, agent, selector, n, script, k) ==
    IF selector \notin TestType
    THEN Ended(st, "ValueError", None, "none", None, "not_called", k)
    ELSE LET Registered(st1) ==
               IF agent = "incomplete"
               THEN Ended(st1, "KeyError", None, "none", None, "not_called", k)
               ELSE LET Run(suite) ==
                          LET Execute(st2) ==
                                ExecuteAndStore(st2, agent_id, suite, script, k)
                          IN  Bind([st1 EXCEPT
                                      !.test_suites = DictSet(@, suite.id, suite),
                                      !.engine_suites = register(@, suite),
                                      !.uuid = @ + 1],
                                   Execute)
                    IN  Bind(create_test_suite(
                                Uuid(st1.uuid + 1),
                                generate_test_cases_for_agent(selector, st.uuid, n)),
                             Run)
         IN  Bind([RegisterCases(
                      st, generate_test_cases_for_agent(selector, st.uuid, n), 1)
                   EXCEPT !.uuid = @ + n],
                  Registered)

\* An else branch that registers the suite with the engine on every call
\* and with the facade only when its id is new.
SuiteObjectEngineAlways(st, agent_id, suite, script, k) ==
    LET Execute(st1) == ExecuteAndStore(st1, agent_id, suite, script, k)
    IN  Bind([st EXCEPT
                !.test_suites = IF suite.id \notin DOMAIN @
                                THEN DictSet(@, suite.id, suite) ELSE @,
                !.engine_suites = register(@, suite)],
             Execute)

\* The else branch: the suite is registered unless its id already is.
SuiteObject(st, agent_id, suite, script, k) ==
    LET Execute(st1) == ExecuteAndStore(st1, agent_id, suite, script, k)
    IN  Bind(IF suite.id \notin DOMAIN st.test_suites
             THEN [st EXCEPT !.test_suites = DictSet(@, suite.id, suite),
                             !.engine_suites = register(@, suite)]
             ELSE st,
             Execute)

\* The try block of test_agent.
test_agent_try(st, agent_id, test_suite, n, script) ==
    LET a == get_agent(Reply(script, 1)) IN
    IF a.exc # "none"
    THEN Ended(st, a.exc, None, a.exc, None, "not_called", 1)
    ELSE IF test_suite.type = "str"
    THEN SuiteByType(st, agent_id, a.val, test_suite.str, n, script, 1)
    ELSE SuiteObject(st, agent_id, test_suite.obj, script, 1)

\* Handlers that let every exception through as it is.
test_agent_except_raw(exc) == exc

\* Handlers that wrap every exception, agent-not-found included.
test_agent_except_wrapall(exc) ==
    IF exc = "none" THEN "none" ELSE "ArchonAgentTesterError"

\* Handlers whose first clause names TestSuiteNotFoundError alone.
test_agent_except_suite_only(exc) ==
    IF exc = "none" THEN "none"
    ELSE IF IsInstance(exc, "TestSuiteNotFoundError") THEN exc
    ELSE "ArchonAgentTesterError"

\* except (AgentNotFoundError, TestSuiteNotFoundError): raise
\* except Exception as e: raise ArchonAgentTesterError(...)
test_agent_except(exc) ==
    IF exc = "none" THEN "none"
    ELSE IF \/ IsInstance(exc, "AgentNotFoundError")
            \/ IsInstance(exc, "TestSuiteNotFoundError")
    THEN exc
    ELSE "ArchonAgentTesterError"

\* ArchonTester.test_agent(agent_id, test_suite)
test_agent(st, agent_id, test_suite, n, script) ==
    LET Handled(b) ==
          [st |-> b.st, exc |-> test_agent_except(b.exc), cause |-> b.exc,
           ret |-> b.ret, get_exc |-> b.get_exc, run |-> b.run,
           update |-> b.update, requests |-> b.requests, calls |-> b.calls]
    IN  Bind(test_agent_try(st, agent_id, test_suite, n, script), Handled)

\* The storage after a call.
Store(st) ==
    /\ test_cases' = st.test_cases
    /\ test_suites' = st.test_suites
    /\ test_runs' = st.test_runs
    /\ engine_cases' = st.engine_cases
    /\ engine_suites' = st.engine_suites
    /\ uuid' = st.uuid

\* The scripts that answer exactly the requests the call makes: a script
\* the call outruns is extended by every reply.
RECURSIVE CallScripts(_, _, _, _, _)
CallScripts(st, agent_id, test_suite, n, script) ==
    IF test_agent(st, agent_id, test_suite, n, script).requests = Len(script)
    THEN {script}
    ELSE UNION {CallScripts(st, agent_id, test_suite, n, longer) :
                    longer \in {Append(script, r) : r \in FacadeReplies}}

TestAgentCall(agent_id, test_suite, n) ==
    \E st \in {Storage} :
    \E script \in CallScripts(st, agent_id, test_suite, n, <<>>) :
    \E e \in {test_agent(st, agent_id, test_suite, n, script)} :
            /\ Store(e.st)
            /\ last' = [op |-> "test_agent", exc |-> e.exc, cause |-> e.cause,
                        ret |-> e.ret,
                        agent_id |-> agent_id, test_suite |-> test_suite,
                        get_exc |-> e.get_exc, run |-> e.run,
                        update |-> e.update, calls |-> e.calls]
            /\ UNCHANGED <<http, model, cli, execution>>

\* The selectors a caller passes as a string.
Selectors == {"functional", "nonsense"}

\* The case identifiers a caller's suite lists: registered ones.
CaseRefs == DOMAIN test_cases

\* The lists of at most MaxSuiteLen different elements of a set.
Lists(elems) ==
    {l \in UNION {[1..k -> elems] : k \in 0..MaxSuiteLen} :
        \A i, j \in 1..Len(l) : l[i] = l[j] => i = j}

CaseSeqs(refs) == Lists(refs)

\* The TestSuite objects a caller may pass: a registered suite, or one the
\* caller built under an identifier of its own.
SuiteObjects ==
    {test_suites[i] : i \in DOMAIN test_suites}
    \cup {[id |-> UserId, test_cases |-> cs] : cs \in CaseSeqs(CaseRefs)}

\* test_agent(agent_id, "<type>")
TestAgentByType ==
    \E agent_id \in AgentIds, selector \in Selectors, n \in 1..MaxSuiteLen :
        /\ uuid + n + 2 <= MaxUuid
        /\ TestAgentCall(agent_id, [type |-> "str", str |-> selector], n)

\* test_agent(agent_id, <TestSuite>)
TestAgentWithSuite ==
    \E agent_id \in AgentIds, suite \in SuiteObjects :
        /\ uuid + 1 <= MaxUuid
        /\ TestAgentCall(agent_id, [type |-> "TestSuite", obj |-> suite], 1)

-----------------------------------------------------------------------------
(* archon_agent_tester.py: ArchonTester.generate_report.                    *)

\* How a call of generate_report ends: the run registry it leaves, the
\* exception it raises, and whether the report generator was invoked.
Reported(runs, exc, invoked) ==
    [test_runs |-> runs, exc |-> exc, invoked |-> invoked]

\* From "# Ensure the test suites and cases are registered with the report
\* generator" to the return.  The generator's copies of the cases, suites
\* and runs are written here and read by no operation of the facade: they
\* are not part of the state.
RegisterAndRender(runs, run, format, render) ==
    Reported(runs, rg_generate_report(run.id, format, render).exc, TRUE)

\* A try block that stores the given TestRun object on every call.
generate_report_try_overwrite(test_run, format, render) ==
    IF test_run.type = "str"
    THEN IF test_run.str \notin DOMAIN test_runs
         THEN Reported(test_runs, RaiseNamed("TestRunNotFoundError").exc, FALSE)
         ELSE RegisterAndRender(test_runs, test_runs[test_run.str], format, render)
    ELSE RegisterAndRender(DictSet(test_runs, test_run.obj.id, test_run.obj),
                           test_run.obj, format, render)

\* The try block of generate_report.
generate_report_try(test_run, format, render) ==
    IF test_run.type = "str"
    THEN IF test_run.str \notin DOMAIN test_runs
         THEN Reported(test_runs, RaiseNamed("TestRunNotFoundError").exc, FALSE)
         ELSE RegisterAndRender(test_runs, test_runs[test_run.str], format, render)
    ELSE LET run == test_run.obj
             runs == IF run.id \notin DOMAIN test_runs
                     THEN DictSet(test_runs, run.id, run)
                     ELSE test_runs
         IN  RegisterAndRender(runs, run, format, render)

\* except TestRunNotFoundError: raise
\* except Exception as e: raise ReportGenerationError(...)
\* The class named by the first clause is looked up when an exception
\* reaches the handlers.
generate_report_except(exc) ==
    IF exc = "none" THEN "none"
    ELSE IF Resolve("TestRunNotFoundError").exc # "none"
    THEN Resolve("TestRunNotFoundError").exc
    ELSE IF IsInstance(exc, "TestRunNotFoundError") THEN exc
    ELSE "ReportGenerationError"

\* ArchonTester.generate_report(test_run, format)
generate_report(test_run, format, render) ==
    LET Handled(b) == [b EXCEPT !.exc = generate_report_except(b.exc)]
    IN  Bind(generate_report_try(test_run, format, render), Handled)

FormatArgs == {"json", "pdf"}

\* How the renderer ends.
Renders == {"ok", "OSError"}

\* A TestRun built by the caller under the identifier i.
CallerRun(i) ==
    [id |-> i, agent_id |-> "agent-1", test_suite_id |-> UserId,
     status |-> "passed", results |-> <<>>, summary |-> Summarize(<<>>)]

\* A TestRun the caller built with status pending: no case has run.
UnfinishedRun == [CallerRun(UserId) EXCEPT !.status = "pending"]

\* The run identifiers and TestRun objects a caller may pass.
RunArgs ==
    {[type |-> "str", str |-> i] : i \in DOMAIN test_runs \cup {UserId}}
    \cup {[type |-> "TestRun", obj |-> test_runs[i]] : i \in DOMAIN test_runs}
    \cup {[type |-> "TestRun", obj |-> CallerRun(i)] :
            i \in DOMAIN test_runs \cup {UserId}}
    \cup {[type |-> "TestRun", obj |-> UnfinishedRun]}

GenerateReport ==
    \E test_run \in RunArgs, format \in FormatArgs, render \in Renders :
    \E e \in {generate_report(test_run, format, render)} :
        /\ render # "ok" => (e.invoked /\ format \in ReportFormats)
        /\ test_runs' = e.test_runs
        /\ last' = [op |-> "generate_report", exc |-> e.exc,
                    test_run |-> test_run, format |-> format, render |-> render,
                    invoked |-> e.invoked]
        /\ UNCHANGED <<test_cases, test_suites, engine_cases, engine_suites,
                       uuid, http, model, cli, execution>>

-----------------------------------------------------------------------------
(* archon_agent_tester.py: create_custom_test_case, create_custom_test_suite *)

\* A validator that returns every mapping.
validate_criteria_unchecked(v) == Return(v)

\* @validator("evaluation_criteria"): `not v` on the mapping
validate_criteria(v) ==
    IF v = "empty" THEN Raise("ValidationError") ELSE Return(v)

\* TestCase(id=, test_type=, evaluation_criteria=)
TestCase(id, test_type, evaluation_criteria) ==
    IF validate_criteria(evaluation_criteria).exc # "none"
    THEN Raise("ValidationError")
    ELSE Return([id |-> id, test_type |-> test_type,
                 evaluation_criteria |-> evaluation_criteria])

\* The evaluation_criteria argument: omitted, the empty mapping {}, the
\* mapping {"response_not_empty": ...} (what the command line passes).
CriteriaArgs == {"None", "empty", "response_not_empty"}

TypeArgs == {"custom"}

\* ArchonTester.create_custom_test_case
create_custom_test_case(st, test_type, evaluation_criteria) ==
    LET Register(c) ==
          IF c.exc # "none"
          THEN [st |-> [st EXCEPT !.uuid = @ + 1], exc |-> c.exc, ret |-> None]
          ELSE [st |-> [st EXCEPT
                          !.uuid = @ + 1,
                          !.test_cases = DictSet(@, c.val.id, c.val),
                          !.engine_cases = register(@, c.val)],
                exc |-> "none", ret |-> Some(c.val.id)]
    IN  Bind(TestCase(Uuid(st.uuid + 1), test_type,
                      IF evaluation_criteria = "None"
                      THEN "response_not_empty"
                      ELSE evaluation_criteria),
             Register)

CreateCustomTestCase ==
    \E test_type \in TypeArgs, evaluation_criteria \in CriteriaArgs :
    \E e \in {create_custom_test_case(Storage, test_type, evaluation_criteria)} :
            /\ uuid + 1 <= MaxUuid
            /\ Store(e.st)
            /\ last' = [op |-> "create_custom_test_case", exc |-> e.exc,
                        ret |-> e.ret, criteria |-> evaluation_criteria]
            /\ UNCHANGED <<http, model, cli, execution>>

\* A TestCase the caller built and never registered.
CallerCase ==
    [id |-> UserId, test_type |-> "custom",
     evaluation_criteria |-> "response_not_empty"]

\* The lists of TestCase objects a caller may pass.
CaseObjectSeqs ==
    Lists({test_cases[i] : i \in DOMAIN test_cases} \cup {CallerCase})

\* ArchonTester.create_custom_test_suite
create_custom_test_suite(st, cases) ==
    LET test_suite_id == Uuid(st.uuid + 1)
        suite == [id |-> test_suite_id,
                  test_cases |-> [i \in 1..Len(cases) |-> cases[i].id]]
    IN  [st |-> [st EXCEPT !.uuid = @ + 1,
                           !.test_suites = DictSet(@, suite.id, suite),
                           !.engine_suites = register(@, suite)],
         exc |-> "none", ret |-> Some(suite.id)]

CreateCustomTestSuite ==
    \E cases \in CaseObjectSeqs :
    \E e \in {create_custom_test_suite(Storage, cases)} :
            /\ uuid + 1 <= MaxUuid
            /\ Store(e.st)
            /\ last' = [op |-> "create_custom_test_suite", exc |-> e.exc,
                        ret |-> e.ret]
            /\ UNCHANGED <<http, model, cli, execution>>

-----------------------------------------------------------------------------
(* The execution engine case by case: the state machine of a run, with the  *)
(* per-case timeout and the late answer of an abandoned request.            *)

\* The cases registered with the engine of this run, and a suite's
\* reference to a case that is not.
EngineRegistry ==
    [c \in {"case-1", "case-2"} |->
        [id |-> c, test_type |-> "custom",
         evaluation_criteria |-> "response_not_empty"]]

EngineSuites == Lists(DOMAIN EngineRegistry \cup {"ghost"})

\* No run yet.
ExecutionIdle ==
    [phase |-> "idle", ids |-> <<>>, results |-> <<>>, inflight |-> {},
     invoked |-> <<>>, discarded |-> 0, status |-> "pending",
     summary |-> Summarize(<<>>)]

\* The result the engine is working on: the last one, while it is pending
\* or running.
Current(e) ==
    IF /\ Len(e.results) > 0
       /\ e.results[Len(e.results)].status \in {"pending", "running"}
    THEN Len(e.results) ELSE 0

\* The answer to an abandoned request overwrites the result of its case.
late_response_overwrites(results, j, reply) ==
    [results EXCEPT ![j].status =
        ExecuteCase(results[j].test_case_id, reply, EngineRegistry).status]

\* The answer to an abandoned request is discarded.
late_response(results, j, reply) == results

\* execute_test_suite begins: the run is created.
EngineStart ==
    \E ids \in EngineSuites :
        /\ execution.phase = "idle"
        /\ execution' = [execution EXCEPT !.phase = "running", !.ids = ids,
                                          !.status = "running"]
        /\ UNCHANGED <<facadeVars, http, model, cli>>

\* Step 1: the next case is resolved; an unresolvable one gets its result
\* at once, a resolvable one a result that waits for the invocation.
EngineResolve ==
    /\ execution.phase = "running"
    /\ Current(execution) = 0
    /\ Len(execution.results) < Len(execution.ids)
    /\ LET id == execution.ids[Len(execution.results) + 1]
           r  == ExecuteCase(id, Reply(<<>>, 1), EngineRegistry)
       IN  execution' =
             [execution EXCEPT !.results =
                Append(@, IF id \in DOMAIN EngineRegistry
                          THEN [test_case_id |-> id, status |-> "pending",
                                reason |-> "none"]
                          ELSE [test_case_id |-> id, status |-> r.status,
                                reason |-> r.reason])]
    /\ UNCHANGED <<facadeVars, http, model, cli>>

\* Steps 2 and 3: the result is marked running and the request is sent.
EngineInvoke ==
    /\ execution.phase = "running"
    /\ Current(execution) # 0
    /\ execution.results[Current(execution)].status = "pending"
    /\ execution' =
         [execution EXCEPT !.results[Current(execution)].status = "running",
                           !.inflight = @ \cup {Current(execution)},
                           !.invoked = Append(@, Current(execution))]
    /\ UNCHANGED <<facadeVars, http, model, cli>>

\* Steps 3 and 4: the gateway answers the request of the running case;
\* agent-not-found ends the run.
EngineRespond ==
    \E reply \in FacadeReplies :
        /\ execution.phase = "running"
        /\ Current(execution) # 0
        /\ execution.results[Current(execution)].status = "running"
        /\ LET i == Current(execution)
               r == ExecuteCase(execution.ids[i], reply, EngineRegistry)
           IN  execution' =
                 [execution EXCEPT
                    !.results[i].status = r.status,
                    !.results[i].reason = r.reason,
                    !.inflight = @ \ {i},
                    !.phase = IF r.abort THEN "aborted" ELSE @,
                    !.status = IF r.abort THEN "error" ELSE @]
        /\ UNCHANGED <<facadeVars, http, model, cli>>

\* Step 3, on timeout: the case is an error and its request is abandoned;
\* the answer may still arrive.
EngineTimeout ==
    /\ execution.phase = "running"
    /\ Current(execution) # 0
    /\ execution.results[Current(execution)].status = "running"
    /\ execution' =
         [execution EXCEPT
            !.results[Current(execution)].status = "error",
            !.results[Current(execution)].reason = "timeout"]
    /\ UNCHANGED <<facadeVars, http, model, cli>>

\* The answer to an abandoned request arrives, during the run or after it.
EngineLateResponse ==
    \E j \in execution.inflight, reply \in FacadeReplies :
        /\ execution.results[j].status \notin {"pending", "running"}
        /\ execution' =
             [execution EXCEPT
                !.results = late_response(@, j, reply),
                !.inflight = @ \ {j},
                !.discarded = @ + 1]
        /\ UNCHANGED <<facadeVars, http, model, cli>>

\* Step 5: after the last case the status and the summary are finalized.
EngineFinish ==
    /\ execution.phase = "running"
    /\ Current(execution) = 0
    /\ Len(execution.results) = Len(execution.ids)
    /\ execution' =
         [execution EXCEPT !.phase = "finished",
                           !.status = RunStatus(execution.results),
                           !.summary = Summarize(execution.results)]
    /\ UNCHANGED <<facadeVars, http, model, cli>>

-----------------------------------------------------------------------------
(* The specifications.                                                      *)

FacadeInit ==
    /\ test_cases = EmptyDict
    /\ test_suites = EmptyDict
    /\ test_runs = EmptyDict
    /\ engine_cases = EmptyDict
    /\ engine_suites = EmptyDict
    /\ uuid = 0
    /\ last = [op |-> "none", exc |-> "none"]

\* ArchonTester.__init__: empty registries.
Init ==
    /\ FacadeInit
    /\ http = HttpIdle
    /\ model = ModelIdle
    /\ cli = CliIdle
    /\ execution = ExecutionIdle

Next ==
    \/ TestAgentByType
    \/ TestAgentWithSuite
    \/ GenerateReport
    \/ CreateCustomTestCase
    \/ CreateCustomTestSuite

Spec == Init /\ [][Next]_vars

NextClient ==
    \/ ClientGetAgent
    \/ ClientListAgents
    \/ ClientInvokeAgent
    \/ ClientGetAgentMetrics
    \/ ClientUpdateAgentMetadata

SpecClient == Init /\ [][NextClient]_vars

NextModels ==
    \/ NewTestResult
    \/ NewTestRun
    \/ FinalizeRun

SpecModels == Init /\ [][NextModels]_vars

InitCli ==
    /\ FacadeInit
    /\ http = HttpIdle
    /\ model = ModelIdle
    /\ cli \in CliStarts
    /\ execution = ExecutionIdle

NextCli ==
    \/ CliImport
    \/ CliTest
    \/ CliListAgents
    \/ CliListModels
    \/ CliCreateTestCase

SpecCli == InitCli /\ [][NextCli]_vars

NextEngine ==
    \/ EngineStart
    \/ EngineResolve
    \/ EngineInvoke
    \/ EngineRespond
    \/ EngineTimeout
    \/ EngineLateResponse
    \/ EngineFinish

SpecEngine == Init /\ [][NextEngine]_vars

-----------------------------------------------------------------------------
(* The claims.                                                              *)

\* C1: when get_agent reports not-found, test_agent raises
\* AgentNotFoundError itself and leaves the test_runs registry as it was.
C1_AgentNotFoundNoRun ==
    [][(last'.op = "test_agent" /\ last'.get_exc = "AgentNotFoundError")
         => (last'.exc = "AgentNotFoundError" /\ test_runs' = test_runs)]_vars

\* C1 happens: a call on an unknown agent, with runs already stored.
C1_Witness ==
    /\ last.op = "test_agent"
    /\ last.get_exc = "AgentNotFoundError"
    /\ last.exc = "AgentNotFoundError"
    /\ test_runs # EmptyDict

\* C2: generate_report on a run id that is no key of test_runs raises
\* TestRunNotFoundError, for every format, without invoking the generator.
C2_UnregisteredRunId ==
    (/\ last.op = "generate_report"
     /\ last.test_run.type = "str"
     /\ last.test_run.str \notin DOMAIN test_runs)
        => (last.exc = "TestRunNotFoundError" /\ ~last.invoked)

\* summary.get(k, 0)
SummaryGet(summary, k) == IF k \in DOMAIN summary THEN summary[k] ELSE 0

RECURSIVE SumOver(_, _)
SumOver(summary, keys) ==
    IF keys = {} THEN 0
    ELSE LET k == CHOOSE x \in keys : TRUE
         IN  SummaryGet(summary, k) + SumOver(summary, keys \ {k})

\* C3: every constructed TestRun has summary total = number of results and
\* non-total counts that sum to the total.
C3_SummaryConsistent ==
    model.cls = "TestRun" =>
        LET run == Get(model.obj) IN
        /\ SummaryGet(run.summary, "total") = Len(run.results)
        /\ SumOver(run.summary, SummaryKeys \ {"total"})
             = SummaryGet(run.summary, "total")

\* C4: every constructed TestResult with a terminal status has end_time set
\* and duration_ms = round((end_time - start_time) in ms), never negative.
C4_DurationConsistent ==
    (model.cls = "TestResult"
     /\ Get(model.obj).status \notin {"pending", "running"}) =>
        LET r == Get(model.obj) IN
        /\ ~IsNone(r.end_time)
        /\ ~IsNone(r.duration_ms)
        /\ Get(r.duration_ms) = RoundOf(Get(r.end_time) - r.start_time, 1000)
        /\ Get(r.duration_ms) >= 0

\* C5: after test_agent returns for a TestSuite object, the suite stored
\* under its id (facade and engine) and executed is the one passed, also
\* when the id was registered before.
C5_SuiteUpsert ==
    (/\ last.op = "test_agent"
     /\ last.test_suite.type = "TestSuite"
     /\ last.exc = "none") =>
        LET suite == last.test_suite.obj
            run == test_runs[Get(last.ret)]
        IN  /\ test_suites[suite.id] = suite
            /\ engine_suites[suite.id] = suite
            /\ [i \in 1..Len(run.results) |-> run.results[i].test_case_id]
                 = suite.test_cases

\* C6: a failing test_agent raises AgentNotFoundError or
\* TestSuiteNotFoundError (the cause itself) or ArchonAgentTesterError
\* (for every other cause), and nothing else.
C6_OneErrorSurface ==
    (last.op = "test_agent" /\ last.exc # "none") =>
        /\ last.exc \in {"AgentNotFoundError", "TestSuiteNotFoundError",
                         "ArchonAgentTesterError"}
        /\ last.cause \in {"AgentNotFoundError", "TestSuiteNotFoundError"}
             => last.exc = last.cause
        /\ last.cause \notin {"AgentNotFoundError", "TestSuiteNotFoundError"}
             => last.exc = "ArchonAgentTesterError"

\* C6 happens: the ValueError of an unknown test-type string is wrapped.
C6_Witness ==
    /\ last.op = "test_agent"
    /\ last.test_suite.type = "str"
    /\ last.test_suite.str \notin TestType
    /\ last.cause = "ValueError"
    /\ last.exc = "ArchonAgentTesterError"

GatewayOps ==
    {"get_agent", "invoke_agent", "get_agent_metrics", "update_agent_metadata"}

\* C8: get_agent, invoke_agent, get_agent_metrics and update_agent_metadata
\* return the decoded body or raise AgentNotFoundError (exactly on a 404
\* response) or ArchonAPIError (every other failure).
C8_TypedGatewayErrors ==
    http.op \in GatewayOps =>
        LET reply == http.reply
            out == http.out
        IN  /\ out.exc \in {"none", "AgentNotFoundError", "ArchonAPIError"}
            /\ (out.exc = "AgentNotFoundError")
                 <=> (reply.transport_ok /\ reply.status = 404)
            /\ out.exc = "none"
                 => (/\ reply.transport_ok
                     /\ reply.body # "invalid_json"
                     /\ out.val = reply.body)
            /\ (~reply.transport_ok \/ reply.status >= 400
                \/ reply.body = "invalid_json") => out.exc # "none"

\* C8 happens: a 404 answer to get_agent_metrics, raised as not-found.
C8_Witness ==
    /\ http.op = "get_agent_metrics"
    /\ http.reply.transport_ok
    /\ http.reply.status = 404
    /\ http.out.exc = "AgentNotFoundError"

\* A key is supplied neither by flag nor by environment variable.
Missing(flag, env) == flag = "unset" /\ env = "unset"

\* The keys each subcommand requires.
RequiredKeyMissing(c) ==
    \/ c.cmd \in {"test", "list-agents"} /\ Missing(c.flag_archon, c.env_archon)
    \/ c.cmd \in {"test", "list-models"}
         /\ Missing(c.flag_openrouter, c.env_openrouter)

\* C9: test, list-agents and list-models with a required key supplied
\* neither by flag nor by environment make no network call and exit with
\* a non-zero status.
C9_MissingKeyExitsBeforeNetwork ==
    RequiredKeyMissing(cli) =>
        /\ cli.net_calls = 0
        /\ cli.pc = "exited" => cli.exit_code # 0

\* C9 happens: `test` with the Archon key given, the OpenRouter key given
\* nowhere but in the .env file, past the import, exited with status 1.
C9_Witness ==
    /\ cli.cmd = "test"
    /\ Truthy(Or(cli.flag_archon, cli.env_archon))
    /\ Missing(cli.flag_openrouter, cli.env_openrouter)
    /\ cli.dotenv
    /\ cli.pc = "exited"
    /\ cli.exit_code = 1

\* C10: for a registered run, generate_report raises ReportGenerationError
\* when the format is unknown or the renderer fails.
C10_ReportGenerationError ==
    (/\ last.op = "generate_report"
     /\ last.invoked
     /\ (last.format \notin ReportFormats \/ last.render # "ok"))
        => last.exc = "ReportGenerationError"

\* C11: the status of a finalized run is error when any result is error,
\* otherwise failed when any result is failed, otherwise passed (every
\* result being passed or skipped); a skipped result changes none of this.
C11_RunStatusPrecedence ==
    model.cls = "FinalizedRun" =>
        LET run == Get(model.obj)
            Has(status) ==
                \E i \in 1..Len(run.results) : run.results[i].status = status
        IN  /\ Has("error") => run.status = "error"
            /\ (~Has("error") /\ Has("failed")) => run.status = "failed"
            /\ (~Has("error") /\ ~Has("failed")) =>
                   /\ run.status = "passed"
                   /\ \A i \in 1..Len(run.results) :
                          run.results[i].status \in {"passed", "skipped"}

\* A finalized run with an error, a failed and a skipped result side by
\* side: skipped after failed, and failed next to error.
C11_Witness ==
    /\ model.cls = "FinalizedRun"
    /\ \E i, j \in 1..Len(Get(model.obj).results) :
          /\ i < j
          /\ Get(model.obj).results[i].status \in {"failed", "error"}
          /\ Get(model.obj).results[j].status = "skipped"
    /\ Get(model.obj).status \in {"failed", "error"}

\* C12: when invoke_agent reports agent-not-found for a case of a running
\* suite, that request is the last invoke_agent request of the call,
\* test_agent raises AgentNotFoundError and test_runs stays as it was.
C12_NotFoundAbortsRun ==
    [][(/\ last'.op = "test_agent"
        /\ \E i \in 1..Len(last'.calls) :
              last'.calls[i].exc = "AgentNotFoundError")
       => (/\ \A i \in 1..Len(last'.calls) :
                 last'.calls[i].exc = "AgentNotFoundError"
                     => i = Len(last'.calls)
           /\ last'.exc = "AgentNotFoundError"
           /\ IsNone(last'.run)
           /\ test_runs' = test_runs)]_vars

\* A suite of two registered cases whose first invocation reports
\* agent-not-found: the second case is never invoked.
C12_Witness ==
    /\ last.op = "test_agent"
    /\ last.test_suite.type = "TestSuite"
    /\ last.test_suite.obj.id \in DOMAIN engine_suites
    /\ Len(engine_suites[last.test_suite.obj.id].test_cases) = 2
    /\ \A i \in 1..2 :
          engine_suites[last.test_suite.obj.id].test_cases[i]
              \in DOMAIN engine_cases
    /\ Len(last.calls) = 1
    /\ last.calls[1].exc = "AgentNotFoundError"
    /\ last.exc = "AgentNotFoundError"

\* C13: create_custom_test_case with the empty criteria mapping raises the
\* validation error of TestCase and leaves the facade's and the engine's
\* case registries as they were; with criteria omitted it returns a case
\* registered with the default criterion; with a criterion it succeeds.
C13_EmptyCriteriaRejected ==
    [][last'.op = "create_custom_test_case" =>
         /\ last'.criteria = "empty" =>
               /\ last'.exc = "ValidationError"
               /\ test_cases' = test_cases
               /\ engine_cases' = engine_cases
         /\ last'.criteria = "response_not_empty" => last'.exc = "none"
         /\ last'.criteria = "None" =>
               /\ last'.exc = "none"
               /\ Get(last'.ret) \in DOMAIN test_cases'
               /\ test_cases'[Get(last'.ret)].evaluation_criteria
                     = "response_not_empty"
      ]_vars

\* A call with the empty mapping has raised, after an earlier call
\* registered a case.
C13_Witness ==
    /\ last.op = "create_custom_test_case"
    /\ last.criteria = "empty"
    /\ last.exc = "ValidationError"
    /\ test_cases # EmptyDict

\* C14: when test_agent runs a suite that lists a case the engine cannot
\* resolve and no invocation reports agent-not-found, the run is finished
\* and stored: one result per listed case in suite order, the unresolvable
\* ones with status error and reason "test case not found", every
\* resolvable one invoked, and all of them counted in the summary.
C14_UnresolvedCaseIsErrorResult ==
    [][(/\ last'.op = "test_agent"
        /\ last'.test_suite.type = "TestSuite"
        /\ last'.get_exc = "none"
        /\ \E i \in 1..Len(engine_suites'[last'.test_suite.obj.id].test_cases) :
              engine_suites'[last'.test_suite.obj.id].test_cases[i]
                  \notin DOMAIN engine_cases'
        /\ \A j \in 1..Len(last'.calls) :
              last'.calls[j].exc # "AgentNotFoundError")
       => (/\ last'.exc = "none"
           /\ ~IsNone(last'.run)
           /\ Get(last'.run) \in DOMAIN test_runs'
           /\ LET run == test_runs'[Get(last'.run)]
                  ids == engine_suites'[last'.test_suite.obj.id].test_cases
                  unresolved == {i \in 1..Len(ids) :
                                    ids[i] \notin DOMAIN engine_cases'}
              IN  /\ Len(run.results) = Len(ids)
                  /\ \A i \in 1..Len(ids) :
                        /\ run.results[i].test_case_id = ids[i]
                        /\ i \in unresolved =>
                              /\ run.results[i].status = "error"
                              /\ run.results[i].reason = "test case not found"
                        /\ i \notin unresolved =>
                              \E j \in 1..Len(last'.calls) :
                                  last'.calls[j].case = ids[i]
                  /\ run.summary["total"] = Len(ids)
                  /\ run.summary["error"] >= Cardinality(unresolved)
                  /\ run.status = "error")]_vars

\* A suite built by create_custom_test_suite from an unregistered case
\* followed by a registered one has run: the second case was invoked.
C14_Witness ==
    /\ last.op = "test_agent"
    /\ ~IsNone(last.run)
    /\ Get(last.run) \in DOMAIN test_runs
    /\ LET run == test_runs[Get(last.run)] IN
          /\ Len(run.results) = 2
          /\ run.results[1].reason = "test case not found"
          /\ run.results[2].status = "passed"
          /\ run.test_suite_id # UserId
    /\ Len(last.calls) = 1

C16_GatewayFailureConfined ==
    [][(/\ last'.op = "test_agent"
        /\ \E j \in 1..Len(last'.calls) :
              last'.calls[j].exc \notin {"none", "AgentNotFoundError"}
        /\ \A j \in 1..Len(last'.calls) :
              last'.calls[j].exc # "AgentNotFoundError")
       => (/\ last'.exc = "none"
           /\ ~IsNone(last'.ret)
           /\ Get(last'.ret) \in DOMAIN test_runs'
           /\ LET run == test_runs'[Get(last'.ret)]
                  ids == engine_suites'[run.test_suite_id].test_cases
                  calls == last'.calls
              IN  /\ Len(run.results) = Len(ids)
                  /\ run.summary["total"] = Len(ids)
                  /\ run.status = "error"
                  /\ \A j1, j2 \in 1..Len(calls) :
                        calls[j1].case = calls[j2].case => j1 = j2
                  /\ \A i \in 1..Len(ids) :
                        /\ run.results[i].test_case_id = ids[i]
                        /\ ids[i] \in DOMAIN engine_cases' =>
                              \E j \in 1..Len(calls) :
                                  /\ calls[j].case = ids[i]
                                  /\ calls[j].exc # "none" =>
                                        run.results[i].status = "error"
                                  /\ calls[j].exc = "none" =>
                                        run.results[i].status
                                            \in {"passed", "failed"})]_vars

\* A run of two cases: the first invocation failed, the second was made
\* and passed.
C16_Witness ==
    /\ last.op = "test_agent"
    /\ Len(last.calls) = 2
    /\ last.calls[1].exc = "ArchonAPIError"
    /\ last.calls[2].exc = "none"
    /\ ~IsNone(last.ret)
    /\ Get(last.ret) \in DOMAIN test_runs
    /\ test_runs[Get(last.ret)].results[1].status = "error"
    /\ test_runs[Get(last.ret)].results[2].status = "passed"
    /\ test_runs[Get(last.ret)].status = "error"

\* C17: the facade's registries of test cases and test suites and the
\* engine's hold the same identifiers with the same values, after every
\* call, returned or raised.
C17_RegistriesAgree ==
    /\ DOMAIN test_cases = DOMAIN engine_cases
    /\ \A i \in DOMAIN test_cases : test_cases[i] = engine_cases[i]
    /\ DOMAIN test_suites = DOMAIN engine_suites
    /\ \A i \in DOMAIN test_suites : test_suites[i] = engine_suites[i]

\* A case is registered that no registered suite lists, and test_agent was
\* passed a suite object under an identifier already registered for another
\* list of cases.
C17_Witness ==
    /\ last.op = "test_agent"
    /\ last.test_suite.type = "TestSuite"
    /\ last.test_suite.obj.id \in DOMAIN test_suites
    /\ test_suites[last.test_suite.obj.id] # last.test_suite.obj
    /\ \E i \in DOMAIN test_cases :
          \A j \in DOMAIN test_suites :
              \A n \in 1..Len(test_suites[j].test_cases) :
                  test_suites[j].test_cases[n] # i

\* A step leaves every stored run in place.
RunsKept ==
    \A i \in DOMAIN test_runs :
        i \in DOMAIN test_runs' /\ test_runs'[i] = test_runs[i]

\* A step in which test_agent stores the finished run the engine returned,
\* under an identifier that was free.
AddsFinishedRun ==
    /\ last'.op = "test_agent"
    /\ ~IsNone(last'.run)
    /\ Get(last'.run) \notin DOMAIN test_runs
    /\ DOMAIN test_runs' = DOMAIN test_runs \cup {Get(last'.run)}
    /\ test_runs'[Get(last'.run)].id = Get(last'.run)
    /\ test_runs'[Get(last'.run)].status \in {"passed", "failed", "error"}

\* A step in which generate_report stores the TestRun object it was given,
\* under an identifier that was free.
AddsGivenRun ==
    /\ last'.op = "generate_report"
    /\ last'.test_run.type = "TestRun"
    /\ last'.test_run.obj.id \notin DOMAIN test_runs
    /\ DOMAIN test_runs' = DOMAIN test_runs \cup {last'.test_run.obj.id}
    /\ test_runs'[last'.test_run.obj.id] = last'.test_run.obj

\* What test_agent leaves: a returned run is registered, the update was
\* made only after the run was stored, and a raise leaves test_runs alone.
TestAgentStoresBeforeReturn ==
    last'.op = "test_agent" =>
        /\ last'.exc = "none" =>
              /\ ~IsNone(last'.ret)
              /\ Get(last'.ret) \in DOMAIN test_runs'
              /\ test_runs'[Get(last'.ret)].id = Get(last'.ret)
        /\ last'.update # "not_called" => Get(last'.run) \in DOMAIN test_runs'
        /\ last'.exc # "none" => test_runs' = test_runs

====
